---- MODULE Spec2Model ----
(***************************************************************************)
(* Model of the device discovery and attribute-handle caching layer of     *)
(* ev3dev-lang-rust (src/src/driver.rs and its callers).                   *)
(*                                                                         *)
(* Spec           threads calling Driver::get_attribute on clones of one   *)
(*                Driver, sharing the Arc<RwLock<HashMap>> cache.          *)
(* FairSpec       Spec under fair scheduling of the threads and the lock.  *)
(* SpecColor      threads calling ColorSensor::get_bin_data on clones of   *)
(*                one sensor while the device changes mode.                *)
(* SpecRoundTrip  setters and getters of the integer attributes of one     *)
(*                motor, through the handle cache of its Driver.           *)
(* SpecDiscovery  the discovery scans find_name_by_port_and_driver,        *)
(*                find_name_by_driver and find_names_by_driver over a      *)
(*                snapshot of one class directory.                         *)
(***************************************************************************)
EXTENDS Integers, Sequences, FiniteSets, TLC

\* ------------------------------------------------------------------ bounds
NumThreads == 2
MaxCalls == 4
MaxEntries == 3

\* ------------------------------------------------------------ cache: data
Threads == 1..NumThreads
NoThread == 0
AttrNames == {"mode", "value0"}
None == [kind |-> "None"]

DRIVER_PATH == "/sys/class/"
ClassName == "lego-sensor"
InstanceName == "sensor0"

VARIABLES
    files,       \* attribute names that resolve under the device directory
    attributes,  \* Driver.attributes: the shared HashMap, a set of <<key, handle>>
    readers,     \* threads holding a read guard of the RwLock
    writer,      \* the thread holding the write guard, or NoThread
    pc,          \* position of each thread inside get_attribute
    arg,         \* attribute_name of each thread's call
    attr,        \* the local `attribute` of the miss path
    ret,         \* value returned by each thread's last completed call
    calls,       \* number of get_attribute calls started so far
    opened,      \* per attribute name: number of successful from_sys_class calls
    returned,    \* attribute names for which some call has returned
    late,        \* the thread's call started after a call for its name returned
    poisoned,    \* the RwLock is poisoned: a thread panicked holding the write guard
    dir,         \* discovery: the class directory listing (a sequence of entries)
    dirOk,       \* discovery: fs::read_dir succeeds
    query,       \* discovery: the last call and its arguments
    result,      \* discovery: the value that call returned
    again,       \* discovery: the last call repeated the call before it
    num_values,  \* ColorSensor.num_values: the shared Option<u8>
    bin_format,  \* ColorSensor.bin_format: the shared Option<BinDataFormat>
    nvGuards,    \* threads holding a read guard of num_values
    fmtGuards,   \* threads holding a read guard of bin_format
    cpc,         \* position of each thread inside get_bin_data
    num,         \* the local `num` of each thread
    format,      \* the local `format` / `bin_format` of each thread
    devMode,     \* the device's mode: contents of bin_data_format and num_values
    bigEndian,   \* byte order of the build target
    outcome,     \* how the last finished get_bin_data call ended
    store,       \* motor: text of each attribute file
    handles,     \* motor: Driver.attributes of the motor's Driver
    written,     \* motor: per attribute, the value of the last set not yet overwritten
    got          \* motor: the last accessor call and what it returned

cacheVars == <<files, attributes, readers, writer, pc, arg, attr, ret, calls,
               opened, returned, late, poisoned>>
discVars == <<dir, dirOk, query, result, again>>
colorVars == <<num_values, bin_format, nvGuards, fmtGuards, cpc, num, format,
               devMode, bigEndian, outcome>>
motorVars == <<store, handles, written, got>>
vars == <<files, attributes, readers, writer, pc, arg, attr, ret, calls,
          opened, returned, late, poisoned, dir, dirOk, query, result, again,
          num_values, bin_format, nvGuards, fmtGuards, cpc, num, format,
          devMode, bigEndian, outcome, store, handles, written, got>>

\* No ColorSensor and no motor in use.
ColorIdle ==
    /\ num_values = None
    /\ bin_format = None
    /\ nvGuards = {}
    /\ fmtGuards = {}
    /\ cpc = <<>>
    /\ num = <<>>
    /\ format = <<>>
    /\ devMode = None
    /\ bigEndian = FALSE
    /\ outcome = None

MotorIdle ==
    /\ store = <<>>
    /\ handles = {}
    /\ written = <<>>
    /\ got = None

\* The path Attribute::from_sys_class binds: DRIVER_PATH/class/name/attribute.
PathOf(class, name, a) == <<DRIVER_PATH, class, name, a>>

\* Attribute::from_sys_class: opens the attribute file; every successful call
\* opens the file anew (serial identifies the open file the handle shares
\* with its clones).
FromSysClass(class, name, a, present, serial) ==
    IF a \in present
    THEN [kind |-> "Ok", path |-> PathOf(class, name, a), file |-> serial]
    ELSE [kind |-> "Err"]

\* HashMap as a set of <<key, value>> pairs.
Keys(m) == {e[1] : e \in m}
MapGetAlwaysMiss(m, k) == None
MapGetAnyKey(m, k) == IF m # {} THEN (CHOOSE e \in m : TRUE)[2] ELSE None
MapGet(m, k) == IF k \in Keys(m) THEN (CHOOSE e \in m : e[1] = k)[2] ELSE None
MapInsertKeepOld(m, k, v) == m \cup {<<k, v>>}
MapInsertClearing(m, k, v) == {<<k, v>>}
MapInsert(m, k, v) == {e \in m : e[1] # k} \cup {<<k, v>>}

\* ---------------------------------------------------------- cache: actions
\* Driver::new: the cache starts empty.
NewAttributes == {}

\* A thread calls get_attribute(a) on its clone of the Driver.
Call(t, a) ==
    /\ pc[t] = "idle"
    /\ calls < MaxCalls
    /\ pc' = [pc EXCEPT ![t] = "start"]
    /\ arg' = [arg EXCEPT ![t] = a]
    /\ calls' = calls + 1
    /\ late' = [late EXCEPT ![t] = a \in returned]
    /\ ret' = [ret EXCEPT ![t] = None]
    /\ UNCHANGED <<files, attributes, readers, writer, attr, opened, returned,
                   poisoned>>

\* outer.read().unwrap()
ReadLock(t) ==
    /\ pc[t] = "start"
    /\ writer = NoThread
    /\ IF poisoned
       THEN pc' = [pc EXCEPT ![t] = "panicked"] /\ UNCHANGED readers
       ELSE pc' = [pc EXCEPT ![t] = "locked"] /\ readers' = readers \cup {t}
    /\ UNCHANGED <<files, attributes, writer, arg, attr, ret, calls, opened,
                   returned, late, poisoned>>

\* if let Some(attr) = attributes.get(attribute_name) { attr.clone() }
\* the read guard is dropped when the function returns.
Hit(t) ==
    /\ pc[t] = "locked"
    /\ MapGet(attributes, arg[t]) # None
    /\ ret' = [ret EXCEPT ![t] = MapGet(attributes, arg[t])]
    /\ readers' = readers \ {t}
    /\ returned' = returned \cup {arg[t]}
    /\ pc' = [pc EXCEPT ![t] = "idle"]
    /\ UNCHANGED <<files, attributes, writer, arg, attr, calls, opened, late,
                   poisoned>>

\* else { drop(attributes); ...
ReadersAfterMissKeep(rs, t) == rs
ReadersAfterMiss(rs, t) == rs \ {t}

Miss(t) ==
    /\ pc[t] = "locked"
    /\ MapGet(attributes, arg[t]) = None
    /\ readers' = ReadersAfterMiss(readers, t)
    /\ pc' = [pc EXCEPT ![t] = "resolve"]
    /\ UNCHANGED <<files, attributes, writer, arg, attr, ret, calls, opened,
                   returned, late, poisoned>>

\* The cache after a failed resolution: the else branch only panics.
CacheAfterFailurePlaceholder(m, a) == MapInsert(m, a, [kind |-> "Err"])
CacheAfterFailure(m, a) == m

\* if let Ok(attribute) = Attribute::from_sys_class(class_name, name, attribute_name)
\* ... else { panic!(...) }
\* Unwinding drops the guards the thread holds; dropping a write guard while
\* panicking poisons the lock.
Resolve(t) ==
    /\ pc[t] = "resolve"
    /\ LET r == FromSysClass(ClassName, InstanceName, arg[t], files,
                             opened[arg[t]] + 1)
       IN IF r.kind = "Ok"
          THEN /\ attr' = [attr EXCEPT ![t] = r]
               /\ opened' = [opened EXCEPT ![arg[t]] = @ + 1]
               /\ pc' = [pc EXCEPT ![t] = "write"]
               /\ UNCHANGED <<attributes, readers, writer, poisoned>>
          ELSE /\ pc' = [pc EXCEPT ![t] = "panicked"]
               /\ attributes' = CacheAfterFailure(attributes, arg[t])
               /\ readers' = readers \ {t}
               /\ writer' = IF writer = t THEN NoThread ELSE writer
               /\ poisoned' = (poisoned \/ writer = t)
               /\ UNCHANGED <<attr, opened>>
    /\ UNCHANGED <<files, arg, ret, calls, returned, late>>

\* let mut guard = outer.write().unwrap();
WriteLock(t) ==
    /\ pc[t] = "write"
    /\ writer = NoThread
    /\ readers = {}
    /\ IF poisoned
       THEN pc' = [pc EXCEPT ![t] = "panicked"] /\ UNCHANGED writer
       ELSE pc' = [pc EXCEPT ![t] = "insert"] /\ writer' = t
    /\ UNCHANGED <<files, attributes, readers, arg, attr, ret, calls, opened,
                   returned, late, poisoned>>

\* The holder of the write lock once the block of the insert ends: the guard
\* is a local of that block and is dropped there.
WriterAfterInsertKept(t) == t
WriterAfterInsert(t) == NoThread

\* guard.insert(attribute_name.to_owned(), attribute.clone()); attribute
Insert(t) ==
    /\ pc[t] = "insert"
    /\ attributes' = MapInsert(attributes, arg[t], attr[t])
    /\ ret' = [ret EXCEPT ![t] = attr[t]]
    /\ attr' = [attr EXCEPT ![t] = None]
    /\ writer' = WriterAfterInsert(t)
    /\ returned' = returned \cup {arg[t]}
    /\ pc' = [pc EXCEPT ![t] = "idle"]
    /\ UNCHANGED <<files, readers, arg, calls, opened, late, poisoned>>

\* The device tree changes under the program: an attribute file appears
\* (the device is plugged in, the file becomes accessible).
Appear(a) ==
    /\ a \notin files
    /\ files' = files \cup {a}
    /\ UNCHANGED <<attributes, readers, writer, pc, arg, attr, ret, calls, opened,
                   returned, late, poisoned>>

CacheInit ==
    /\ files \in SUBSET AttrNames
    /\ attributes = NewAttributes
    /\ readers = {}
    /\ writer = NoThread
    /\ pc = [t \in Threads |-> "idle"]
    /\ arg = [t \in Threads |-> "mode"]
    /\ attr = [t \in Threads |-> None]
    /\ ret = [t \in Threads |-> None]
    /\ calls = 0
    /\ opened = [a \in AttrNames |-> 0]
    /\ returned = {}
    /\ late = [t \in Threads |-> FALSE]
    /\ poisoned = FALSE

DiscIdle ==
    /\ dir = <<>>
    /\ dirOk = TRUE
    /\ query = None
    /\ result = None
    /\ again = FALSE

Init == CacheInit /\ DiscIdle /\ ColorIdle /\ MotorIdle

Next ==
    \/ \E t \in Threads, a \in AttrNames : Call(t, a) /\ UNCHANGED <<discVars, colorVars, motorVars>>
    \/ \E t \in Threads : ReadLock(t) /\ UNCHANGED <<discVars, colorVars, motorVars>>
    \/ \E t \in Threads : Hit(t) /\ UNCHANGED <<discVars, colorVars, motorVars>>
    \/ \E t \in Threads : Miss(t) /\ UNCHANGED <<discVars, colorVars, motorVars>>
    \/ \E t \in Threads : Resolve(t) /\ UNCHANGED <<discVars, colorVars, motorVars>>
    \/ \E t \in Threads : WriteLock(t) /\ UNCHANGED <<discVars, colorVars, motorVars>>
    \/ \E t \in Threads : Insert(t) /\ UNCHANGED <<discVars, colorVars, motorVars>>
    \/ \E a \in AttrNames : Appear(a) /\ UNCHANGED <<discVars, colorVars, motorVars>>

Spec == Init /\ [][Next]_vars

\* The steps of thread t inside get_attribute. The scheduler runs every
\* thread that stays able to take a step, and the lock is fair: a thread that
\* stays able to acquire it gets it.
Proceed(t) ==
    /\ ReadLock(t) \/ Hit(t) \/ Miss(t) \/ Resolve(t) \/ WriteLock(t) \/ Insert(t)
    /\ UNCHANGED <<discVars, colorVars, motorVars>>

FairSpec == Spec /\ \A t \in Threads : WF_vars(Proceed(t))

\* -------------------------------------------------------- discovery: data
\* Strings whose content the scans inspect are sequences of characters.
Str_in1 == <<"i", "n", "1">>
Str_in2 == <<"i", "n", "2">>
Str_in3 == <<"i", "n", "3">>
Str_in4 == <<"i", "n", "4">>
Str_ev3_ports == <<"e", "v", "3", "-", "p", "o", "r", "t", "s", ":">>

SensorPorts == {"In1", "In2", "In3", "In4"}

\* impl Port for SensorPort: address()
Address(port) ==
    CASE port = "In1" -> Str_in1
      [] port = "In2" -> Str_in2
      [] port = "In3" -> Str_in3
      [] port = "In4" -> Str_in4

\* str::contains: needle occurs in hay as a contiguous substring.
ContainsAsEquality(hay, needle) == hay = needle
Contains(hay, needle) ==
    \E i \in 0..(Len(hay) - Len(needle)) : SubSeq(hay, i + 1, i + Len(needle)) = needle

\* driver_name_vec.iter().any(|n| &driver_name == n)
AnyEquals(driver_name_vec, driver_name) ==
    \E i \in 1..Len(driver_name_vec) : driver_name_vec[i] = driver_name

\* What a directory holds: the values of the address and driver_name
\* attribute files of an instance, or Unreadable where opening or reading the
\* file fails; an entry that the listing fails to yield (path?) or whose file
\* name does not decode (to_str().or_err()?) has nameOk = FALSE.
Unreadable == [kind |-> "Err"]
Content(text) == [kind |-> "Ok", text |-> text]
Addresses == {Str_ev3_ports \o Str_in1, Str_ev3_ports \o Str_in2}
DriverNames == {"lego-ev3-color", "lego-ev3-gyro"}
DriverIds == {<<"lego-ev3-color">>, <<"lego-ev3-gyro", "lego-ev3-color">>}
QueryPorts == {"In1", "In2"}
InstanceNameOf(k) == "sensor" \o ToString(k)

EntryBodies ==
    [nameOk : {TRUE},
     address : {Content(a) : a \in Addresses} \cup {Unreadable},
     driver_name : {Content(d) : d \in DriverNames} \cup {Unreadable}]
    \cup {[nameOk |-> FALSE, address |-> Unreadable, driver_name |-> Unreadable]}

\* The listing order is the file system's: ascending or descending by name.
ListedName(order, n, i) ==
    InstanceNameOf(IF order = "ascending" THEN i - 1 ELSE n - i)

Dirs ==
    UNION {{[i \in 1..n |->
               [name |-> ListedName(order, n, i), nameOk |-> body[i].nameOk,
                address |-> body[i].address, driver_name |-> body[i].driver_name]] :
            body \in [1..n -> EntryBodies], order \in {"ascending", "descending"}} :
           n \in 0..MaxEntries}

IoError == [kind |-> "Io"]
NoPort == [kind |-> "None"]
SomePort(a) == [kind |-> "Some", address |-> a]
Ok(v) == [kind |-> "Ok", value |-> v]
NotConnected(device, port) == [kind |-> "NotConnected", device |-> device, port |-> port]
MultipleMatches(device, names) ==
    [kind |-> "MultipleMatches", device |-> device, ports |-> names]

\* format!("{driver_name_vec:?}"): the list in brackets, each element quoted.
RECURSIVE DebugItems(_, _)
DebugItems(v, i) ==
    IF i > Len(v) THEN <<>>
    ELSE (IF i > 1 THEN <<", ">> ELSE <<>>) \o <<"\"", v[i], "\"">> \o DebugItems(v, i + 1)

DebugFormat(v) == <<"[">> \o DebugItems(v, 1) \o <<"]">>

\* ------------------------------------------------------- discovery: scans
\* found_names.push(name.to_owned())
PushFront(found_names, name) == <<name>> \o found_names
Push(found_names, name) == Append(found_names, name)

\* Driver::find_names_by_driver
RECURSIVE NamesScan(_, _, _, _)
NamesScan(paths, i, driver_name_vec, found_names) ==
    IF i > Len(paths) THEN Ok(found_names)
    ELSE IF ~paths[i].nameOk THEN IoError
    ELSE IF paths[i].driver_name = Unreadable THEN IoError
    ELSE NamesScan(paths, i + 1, driver_name_vec,
                   IF AnyEquals(driver_name_vec, paths[i].driver_name.text)
                   THEN Push(found_names, paths[i].name)
                   ELSE found_names)

\* let mut found_names = Vec::new(): every call starts from an empty vector.
FoundNamesLeftOver ==
    IF result.kind = "MultipleMatches" THEN result.ports
    ELSE IF query # None /\ query.op = "find_names_by_driver" /\ result.kind = "Ok"
    THEN result.value
    ELSE <<>>
NewFoundNames == <<>>

find_names_by_driver(paths, readable, driver_name_vec) ==
    IF ~readable THEN IoError
    ELSE NamesScan(paths, 1, driver_name_vec, NewFoundNames)

\* Driver::find_name_by_driver
find_name_by_driver_first(paths, readable, driver_name_vec) ==
    LET names == find_names_by_driver(paths, readable, driver_name_vec)
    IN IF names.kind # "Ok" THEN names
       ELSE IF Len(names.value) = 0
       THEN NotConnected(DebugFormat(driver_name_vec), NoPort)
       ELSE Ok(names.value[1])

find_name_by_driver(paths, readable, driver_name_vec) ==
    LET names == find_names_by_driver(paths, readable, driver_name_vec)
    IN IF names.kind # "Ok" THEN names
       ELSE IF Len(names.value) = 0
       THEN NotConnected(DebugFormat(driver_name_vec), NoPort)
       ELSE IF Len(names.value) = 1 THEN Ok(names.value[Len(names.value)])
       ELSE MultipleMatches(DebugFormat(driver_name_vec), names.value)

\* Driver::find_name_by_port_and_driver
RECURSIVE PortScanSkipping(_, _, _, _)
PortScanSkipping(paths, i, port_address, driver_name_vec) ==
    IF i > Len(paths)
    THEN NotConnected(DebugFormat(driver_name_vec), SomePort(port_address))
    ELSE IF /\ paths[i].nameOk
            /\ paths[i].address.kind = "Ok"
            /\ Contains(paths[i].address.text, port_address)
            /\ paths[i].driver_name.kind = "Ok"
            /\ AnyEquals(driver_name_vec, paths[i].driver_name.text)
    THEN Ok(paths[i].name)
    ELSE PortScanSkipping(paths, i + 1, port_address, driver_name_vec)

RECURSIVE PortScan(_, _, _, _)
PortScan(paths, i, port_address, driver_name_vec) ==
    IF i > Len(paths)
    THEN NotConnected(DebugFormat(driver_name_vec), SomePort(port_address))
    ELSE IF ~paths[i].nameOk THEN IoError
    ELSE IF paths[i].address = Unreadable THEN IoError
    ELSE IF Contains(paths[i].address.text, port_address)
    THEN IF paths[i].driver_name = Unreadable THEN IoError
         ELSE IF AnyEquals(driver_name_vec, paths[i].driver_name.text)
         THEN Ok(paths[i].name)
         ELSE PortScan(paths, i + 1, port_address, driver_name_vec)
    ELSE PortScan(paths, i + 1, port_address, driver_name_vec)

find_name_by_port_and_driver(paths, readable, port, driver_name_vec) ==
    IF ~readable THEN IoError
    ELSE PortScan(paths, 1, Address(port), driver_name_vec)

\* ----------------------------------------------------- discovery: actions
\* The call before was the same function with the same arguments.
SameQuery(q, op, port, ids) ==
    /\ q # None
    /\ q.op = op
    /\ q.ids = ids
    /\ op = "find_name_by_port_and_driver" => q.port = port

CallFindNamesByDriver(ids) ==
    /\ query' = [op |-> "find_names_by_driver", port |-> NoPort, ids |-> ids]
    /\ again' = SameQuery(query, "find_names_by_driver", NoPort, ids)
    /\ result' = find_names_by_driver(dir, dirOk, ids)
    /\ UNCHANGED <<dir, dirOk>>

CallFindNameByDriver(ids) ==
    /\ query' = [op |-> "find_name_by_driver", port |-> NoPort, ids |-> ids]
    /\ again' = SameQuery(query, "find_name_by_driver", NoPort, ids)
    /\ result' = find_name_by_driver(dir, dirOk, ids)
    /\ UNCHANGED <<dir, dirOk>>

CallFindNameByPortAndDriver(port, ids) ==
    /\ query' = [op |-> "find_name_by_port_and_driver", port |-> port, ids |-> ids]
    /\ again' = SameQuery(query, "find_name_by_port_and_driver", port, ids)
    /\ result' = find_name_by_port_and_driver(dir, dirOk, port, ids)
    /\ UNCHANGED <<dir, dirOk>>

CacheIdle ==
    /\ files = {}
    /\ attributes = NewAttributes
    /\ readers = {}
    /\ writer = NoThread
    /\ pc = [t \in Threads |-> "idle"]
    /\ arg = [t \in Threads |-> "mode"]
    /\ attr = [t \in Threads |-> None]
    /\ ret = [t \in Threads |-> None]
    /\ calls = 0
    /\ opened = [a \in AttrNames |-> 0]
    /\ returned = {}
    /\ late = [t \in Threads |-> FALSE]
    /\ poisoned = FALSE

InitDiscovery ==
    /\ CacheIdle
    /\ dirOk \in BOOLEAN
    /\ dir \in (IF dirOk THEN Dirs ELSE {<<>>})
    /\ query = None
    /\ result = None
    /\ again = FALSE
    /\ ColorIdle
    /\ MotorIdle

NextDiscovery ==
    \/ \E ids \in DriverIds : CallFindNamesByDriver(ids) /\ UNCHANGED <<cacheVars, colorVars, motorVars>>
    \/ \E ids \in DriverIds : CallFindNameByDriver(ids) /\ UNCHANGED <<cacheVars, colorVars, motorVars>>
    \/ \E port \in QueryPorts, ids \in DriverIds :
           CallFindNameByPortAndDriver(port, ids) /\ UNCHANGED <<cacheVars, colorVars, motorVars>>

SpecDiscovery == InitDiscovery /\ [][NextDiscovery]_vars

\* --------------------------------------------------- discovery: properties
\* The scan of find_name(s)_by_driver meets no I/O error: the listing works,
\* every file name decodes and every driver_name can be read.
AllReadable ==
    /\ dirOk
    /\ \A i \in 1..Len(dir) : dir[i].nameOk /\ dir[i].driver_name.kind = "Ok"

DriverMatches(i, ids) ==
    /\ dir[i].driver_name.kind = "Ok"
    /\ \E j \in 1..Len(ids) : ids[j] = dir[i].driver_name.text

Matching(ids) == {i \in 1..Len(dir) : DriverMatches(i, ids)}

\* The names of the matching instances in listing order: the k-th of them is
\* the entry with exactly k - 1 matching entries before it.
MatchingNames(ids) ==
    [k \in 1..Cardinality(Matching(ids)) |->
        dir[CHOOSE i \in Matching(ids) :
                Cardinality({j \in Matching(ids) : j < i}) = k - 1].name]

C8_WitnessNotConnected ==
    /\ query # None /\ query.op = "find_name_by_driver" /\ AllReadable
    /\ Len(dir) = MaxEntries
    /\ result.kind = "NotConnected"

\* C9: with more than one matching instance (in a readable directory)
\* find_name_by_driver fails with MultipleMatches carrying exactly the
\* matching instance names, each once, in listing order, which is the list
\* find_names_by_driver returns for the same inputs.
C9_MultipleMatches ==
    (/\ query # None /\ query.op = "find_name_by_driver" /\ AllReadable
     /\ Cardinality(Matching(query.ids)) > 1) =>
        /\ result.kind = "MultipleMatches"
        /\ result.ports = MatchingNames(query.ids)
        /\ Ok(result.ports) = find_names_by_driver(dir, dirOk, query.ids)

C9_Witness ==
    /\ query # None /\ query.op = "find_name_by_driver" /\ AllReadable
    /\ Len(dir) = MaxEntries
    /\ Matching(query.ids) = {1, MaxEntries}
    /\ result.kind = "MultipleMatches"
    /\ result.ports = <<InstanceNameOf(MaxEntries - 1), InstanceNameOf(0)>>

\* Entry i satisfies both conditions of find_name_by_port_and_driver.
PortAndDriverMatch(i, port, ids) ==
    /\ dir[i].nameOk
    /\ dir[i].address.kind = "Ok"
    /\ \E a \in 0..Len(dir[i].address.text), b \in 0..Len(dir[i].address.text) :
           SubSeq(dir[i].address.text, a + 1, b) = Address(port)
    /\ DriverMatches(i, ids)

\* Visiting entry i ends the scan with an I/O error.
Faulty(i, port) ==
    \/ ~dir[i].nameOk
    \/ dir[i].address.kind = "Err"
    \/ /\ \E a \in 0..Len(dir[i].address.text), b \in 0..Len(dir[i].address.text) :
              SubSeq(dir[i].address.text, a + 1, b) = Address(port)
       /\ dir[i].driver_name.kind = "Err"

Candidates(port, ids) == {i \in 1..Len(dir) : PortAndDriverMatch(i, port, ids)}

\* The entries the scan visits: all of them up to the first candidate.
Visited(port, ids) ==
    {i \in 1..Len(dir) : \A j \in Candidates(port, ids) : i <= j}

C10_WitnessNotConnected ==
    /\ query # None /\ query.op = "find_name_by_port_and_driver" /\ dirOk
    /\ Len(dir) = MaxEntries
    /\ \E i \in 1..Len(dir) : DriverMatches(i, query.ids)
    /\ result.kind = "NotConnected"
    /\ result.port = SomePort(Address(query.port))

C11_WitnessPort ==
    /\ again
    /\ query.op = "find_name_by_port_and_driver"
    /\ result.kind = "Ok"

\* C17: an I/O or name-decoding error on a visited entry ends the scan with
\* that error: find_names_by_driver (and find_name_by_driver, built on it)
\* returns it whenever the listing fails or any entry has an undecodable name
\* or an unreadable driver_name; find_name_by_port_and_driver returns it when
\* the listing fails or an entry up to the first match is faulty, even if a
\* later entry matches, and is not affected by entries after the first match.
C17_ErrorsAbortScan ==
    /\ (query # None /\ query.op \in {"find_names_by_driver", "find_name_by_driver"}) =>
           (result = IoError <=> ~AllReadable)
    /\ (query # None /\ query.op = "find_name_by_port_and_driver") =>
           (result = IoError <=>
                \/ ~dirOk
                \/ \E i \in Visited(query.port, query.ids) : Faulty(i, query.port))

C17_Witness ==
    /\ query # None /\ query.op = "find_name_by_port_and_driver"
    /\ Len(dir) = MaxEntries
    /\ Faulty(1, query.port) /\ dir[1].nameOk /\ dir[1].address.kind = "Ok"
    /\ Candidates(query.port, query.ids) = {2}
    /\ result = IoError

C17_WitnessNames ==
    /\ query # None /\ query.op = "find_names_by_driver"
    /\ Len(dir) = MaxEntries
    /\ Matching(query.ids) = {1, 2}
    /\ dir[MaxEntries].driver_name.kind = "Err" /\ dir[MaxEntries].nameOk
    /\ result = IoError

C17_WitnessAfterMatch ==
    /\ query # None /\ query.op = "find_name_by_port_and_driver"
    /\ Len(dir) = MaxEntries
    /\ Candidates(query.port, query.ids) = {1}
    /\ ~dir[2].nameOk
    /\ result = Ok(dir[1].name)


\* ------------------------------------------------------- cache: properties
UniqueKeys(m) == \A e1, e2 \in m : e1[1] = e2[1] => e1 = e2
InMissPath(a) == \E t \in Threads : pc[t] \in {"resolve", "write", "insert"} /\ arg[t] = a
Final(a) == a \in Keys(attributes) /\ ~InMissPath(a)
Returned(t) == pc[t] = "idle" /\ ret[t] # None
DevicePath(a) == PathOf(ClassName, InstanceName, a)

\* C1: once a call get_attribute(A) has returned, a call for A that starts
\* afterwards (on any clone) never reaches the resolution step, and what it
\* returns is bound to the path (class, instance, A), the path of the cached
\* entry.
C1_CacheCoherence ==
    \A t \in Threads :
        late[t] =>
            /\ pc[t] \notin {"resolve", "write", "insert", "panicked"}
            /\ Returned(t) =>
                   /\ ret[t].path = DevicePath(arg[t])
                   /\ \E e \in attributes : e[1] = arg[t] /\ e[2].path = ret[t].path

C1_Witness ==
    \E t, u \in Threads :
        /\ t # u
        /\ late[t] /\ Returned(t)
        /\ Returned(u) /\ arg[u] = arg[t] /\ ret[u] = ret[t]
        /\ opened[arg[t]] = 1

\* C2 as stated: at most one resolution (a call of Attribute::from_sys_class
\* that opens the file) is ever performed per attribute name.
C2_AtMostOneResolution == \A a \in AttrNames : opened[a] <= 1

\* C2 amended: a thread that resolved a name never resolves it again and no
\* call resolves a name it found cached, so a name is resolved at most once
\* per thread: once per racing thread when the misses overlap.
C2_OnePerRacingThread ==
    /\ \A a \in AttrNames : opened[a] <= NumThreads
    /\ \A t \in Threads :
           pc[t] \in {"resolve", "write", "insert"} => late[t] = FALSE

C2_Witness ==
    \E a \in AttrNames :
        /\ opened[a] = NumThreads
        /\ calls > NumThreads
        /\ \A t \in Threads : Returned(t) /\ arg[t] = a

\* C3 as stated: at most one entry per name, and the handle stored in the
\* cache is the one every caller got back, the racing callers included.
C3_OneWinnerShared ==
    /\ UniqueKeys(attributes)
    /\ \A t \in Threads : Returned(t) => <<arg[t], ret[t]>> \in attributes

\* C3 amended: at most one entry per name; a caller that misses gets the
\* handle it resolved itself and stores it, replacing an entry a racing caller
\* stored (last writer wins); a caller that hits gets the stored handle; once
\* a name is cached and no call is on the miss path for it, its entry never
\* changes again.
C3_LastWriterWins ==
    /\ [](UniqueKeys(attributes))
    /\ [][/\ \A a \in AttrNames :
                Final(a) => /\ \A e \in attributes : e[1] = a => e \in attributes'
                            /\ ~InMissPath(a)'
          /\ \A t \in Threads :
                /\ (pc[t] = "locked" /\ pc'[t] = "idle") =>
                       <<arg[t], ret'[t]>> \in attributes
                /\ (pc[t] = "insert" /\ pc'[t] = "idle") =>
                       /\ ret'[t] = attr[t]
                       /\ <<arg[t], attr[t]>> \in attributes'
                       /\ \A e \in attributes' : e[1] = arg[t] => e[2] = attr[t]]_vars

C3_Witness ==
    \E t, u \in Threads :
        /\ Returned(t) /\ Returned(u) /\ arg[t] = arg[u]
        /\ ret[t] # ret[u]
        /\ <<arg[u], ret[u]>> \in attributes
        /\ Final(arg[t])

\* C4: the cache is empty after Driver::new and the set of cached names only
\* grows: no step removes a name.
C4_OnlyGrows ==
    /\ attributes = {}
    /\ [][Keys(attributes) \subseteq Keys(attributes')]_vars

C4_Witness ==
    /\ Keys(attributes) = AttrNames
    /\ calls = MaxCalls /\ \A t \in Threads : Returned(t)

\* C5: a thread that is resolving holds neither the read nor the write guard,
\* nor does a thread waiting for the write lock; the write guard is held only
\* at the insert step.
C5_ResolveOutsideLocks ==
    \A t \in Threads :
        /\ pc[t] \in {"resolve", "write"} => t \notin readers /\ writer # t
        /\ writer = t => pc[t] = "insert" /\ t \notin readers
        /\ t \in readers => pc[t] = "locked"

C5_Witness ==
    \E t, u \in Threads :
        /\ pc[t] = "resolve"
        /\ pc[u] = "locked" /\ arg[u] \in Keys(attributes)

\* C6 as stated: a failed resolution comes back to the caller as an error
\* value: no call ends by aborting its thread.
C6_TypedFailure == \A t \in Threads : pc[t] # "panicked"

\* C7: a failed resolution leaves the cache as it was and stores nothing for
\* the name (every entry is a resolved handle; a name whose resolutions all
\* failed has no entry), and a later resolution of the name succeeds when the
\* file is there.
C7_FailureNotCached ==
    /\ [](\A e \in attributes : e[2].kind = "Ok")
    /\ [](\A a \in AttrNames : opened[a] = 0 => a \notin Keys(attributes))
    /\ [][\A t \in Threads :
            /\ (pc[t] = "resolve" /\ pc'[t] = "panicked") => attributes' = attributes
            /\ (pc[t] = "resolve" /\ pc'[t] # "resolve" /\ arg[t] \in files) =>
                   pc'[t] = "write" /\ attr'[t].kind = "Ok"]_vars

C7_Witness ==
    \E t, u \in Threads :
        /\ pc[t] = "panicked"
        /\ Returned(u) /\ arg[u] = arg[t]
        /\ opened[arg[t]] = 1
        /\ <<arg[u], ret[u]>> \in attributes

\* C16: every handle a call returned or holds, and every handle stored in
\* the cache, is bound to the path of (class_name, name, A) for the name A it
\* was asked for or is stored under; racing callers hold handles with the
\* same path.
C16_HandlesBoundToName ==
    /\ \A t \in Threads :
          /\ Returned(t) => ret[t].path = DevicePath(arg[t])
          /\ attr[t] # None => attr[t].path = DevicePath(arg[t])
    /\ \A e \in attributes : e[2].path = DevicePath(e[1])

C16_Witness ==
    \E t, u \in Threads :
        /\ Returned(t) /\ Returned(u)
        /\ arg[t] = "value0" /\ arg[u] = "value0"
        /\ ret[t].file # ret[u].file
        /\ ret[t].path = ret[u].path
        /\ "mode" \in Keys(attributes)

\* C18: no thread waits for the write lock while it holds a read guard, and
\* under fair scheduling every call that is under way returns or fails.
C18_DeadlockFree ==
    /\ [](\A t \in Threads : pc[t] \in {"write", "insert"} => t \notin readers)
    /\ \A t \in Threads :
          (pc[t] \notin {"idle", "panicked"}) ~> (pc[t] \in {"idle", "panicked"})

C18_Witness ==
    \E t, u \in Threads :
        /\ pc[t] = "write"
        /\ pc[u] = "locked" /\ u \in readers
        /\ arg[u] = arg[t]

\* C19: a call that aborts on a failed resolution holds no guard when it
\* aborts and changes neither lock nor cache; the lock is never poisoned and
\* a thread that has aborted holds nothing, so the other threads' lock steps
\* are never blocked by it.
C19_AbortHoldsNoLock ==
    /\ [](~poisoned)
    /\ [](\A t \in Threads : pc[t] = "panicked" => t \notin readers /\ writer # t)
    /\ [][\A t \in Threads :
            (pc[t] = "resolve" /\ pc'[t] = "panicked") =>
                /\ t \notin readers /\ writer # t
                /\ readers' = readers /\ writer' = writer
                /\ attributes' = attributes]_vars

C19_Witness ==
    \E t, u \in Threads :
        /\ pc[t] = "panicked" /\ arg[t] = "mode"
        /\ "mode" \notin files
        /\ Returned(u) /\ arg[u] = "value0" /\ late[u]
        /\ <<"value0", ret[u]>> \in attributes
        /\ calls = MaxCalls

\* ------------------------------------------------------ color sensor: data
NumClones == 2
Clones == 1..NumClones

Some(v) == [kind |-> "Some", value |-> v]
is_some_never(m) == FALSE
is_some(m) == m.kind = "Some"

\* BinDataFormat::from_str: a match on the token, giving the enum variant;
\* the last arm panics.
from_str(s) ==
    IF s = "u8" THEN [kind |-> "Ok", value |-> "U8"]
    ELSE IF s = "s8" THEN [kind |-> "Ok", value |-> "S8"]
    ELSE IF s = "u16" THEN [kind |-> "Ok", value |-> "U16"]
    ELSE IF s = "s16" THEN [kind |-> "Ok", value |-> "S16"]
    ELSE IF s = "s16_be" THEN [kind |-> "Ok", value |-> "S16Be"]
    ELSE IF s = "s32" THEN [kind |-> "Ok", value |-> "S32"]
    ELSE IF s = "float" THEN [kind |-> "Ok", value |-> "Float"]
    ELSE [kind |-> "Panic"]

\* The modes of the device: what its bin_data_format and num_values
\* attributes hold while it is in the mode. "s32_be" is a token the
\* attribute can hold (Sensor::get_bin_data_format) that from_str has no arm for.
Mode(f, n) == [format |-> f, num_values |-> n]
DeviceModes == {Mode("s16", 3), Mode("float", 1), Mode("s32_be", 1)}

\* Raw blocks the bin_data attribute can return.
RawBlocks ==
    { <<1, 0, 0, 128, 255, 255, 7, 9>>,
      <<1, 0, 0, 128, 255, 255, 0, 0>>,
      <<52, 18, 254, 255, 0, 1, 1, 1, 5, 5>>,
      <<1, 0, 2, 0, 3, 0>> }

\* A 16-bit pattern read as i16 (two's complement).
AsI16(u) == IF u >= 32768 THEN u - 65536 ELSE u
from_le_bytes(a) == AsI16(a[1] + 256 * a[2])
from_be_bytes(a) == AsI16(256 * a[1] + a[2])

\* i16::from_ne_bytes: the byte order of the build target.
from_ne_bytes(a) == IF bigEndian THEN from_be_bytes(a) ELSE from_le_bytes(a)

\* chunks_exact(n): consecutive chunks of n elements, a shorter rest is left out.
RECURSIVE chunks_exact(_, _)
chunks_exact(data, n) ==
    IF Len(data) < n THEN <<>>
    ELSE <<SubSeq(data, 1, n)>> \o chunks_exact(SubSeq(data, n + 1, Len(data)), n)

\* data[0..8].chunks_exact(2).map(|a| i16::from_ne_bytes([a[0], a[1]])).collect()
Colors(data) ==
    LET chunks == chunks_exact(SubSeq(data, 1, 8), 2)
    IN  [i \in 1..Len(chunks) |-> from_ne_bytes(chunks[i])]

\* Ok((colors[0], colors[1], colors[2]))
LastThree(colors) == <<colors[2], colors[3], colors[4]>>
FirstThree(colors) == <<colors[1], colors[2], colors[3]>>

\* How a call of get_bin_data ended: Ok(value), Err, or a panic, with the
\* place (at), the block read and the format the call worked with.
Outcome(kind, at, value, block, fmt) ==
    [kind |-> kind, at |-> at, value |-> value, block |-> block, format |-> fmt]
NoOutcome == Outcome("None", "-", <<>>, <<>>, "-")

\* --------------------------------------------------- color sensor: actions
\* The end of a call: every guard the thread still holds is dropped, by the
\* return or by the unwinding of a panic.
Leave(c, next, out) ==
    /\ cpc' = [cpc EXCEPT ![c] = next]
    /\ nvGuards' = nvGuards \ {c}
    /\ fmtGuards' = fmtGuards \ {c}
    /\ num' = [num EXCEPT ![c] = 0]
    /\ format' = [format EXCEPT ![c] = "-"]
    /\ outcome' = out

\* A call starts: let num_values = outer.read().unwrap();
\* if num_values.is_some() { num_values.unwrap() }
\* else { drop(num_values); ... }: in the first branch the guard lives on to
\* the end of the call. Nothing after this statement uses the number.
NumValuesCheck(c) ==
    /\ cpc[c] = "idle"
    /\ IF is_some(num_values)
       THEN /\ nvGuards' = nvGuards \cup {c}
            /\ cpc' = [cpc EXCEPT ![c] = "bin_format"]
       ELSE /\ cpc' = [cpc EXCEPT ![c] = "get_num_values"]
            /\ UNCHANGED nvGuards
    /\ UNCHANGED <<num, num_values, bin_format, fmtGuards, format, devMode, bigEndian,
                   outcome>>

\* let num: u8 = self.get_attribute("num_values").get()?;
GetNumValues(c, ok) ==
    /\ cpc[c] = "get_num_values"
    /\ IF ok
       THEN /\ num' = [num EXCEPT ![c] = devMode.num_values]
            /\ cpc' = [cpc EXCEPT ![c] = "replace_num_values"]
            /\ UNCHANGED <<nvGuards, fmtGuards, format, outcome>>
       ELSE Leave(c, "idle", Outcome("Err", "num_values", <<>>, <<>>, "-"))
    /\ UNCHANGED <<num_values, bin_format, devMode, bigEndian>>

\* let mut writer = outer.write().unwrap(); writer.replace(num); num
ReplaceNumValues(c) ==
    /\ cpc[c] = "replace_num_values"
    /\ nvGuards = {}
    /\ num_values' = Some(num[c])
    /\ num' = [num EXCEPT ![c] = 0]
    /\ cpc' = [cpc EXCEPT ![c] = "bin_format"]
    /\ UNCHANGED <<bin_format, nvGuards, fmtGuards, format, devMode,
                   bigEndian, outcome>>

\* let bin_format = outer.read().unwrap(); if bin_format.is_some() { ... }
BinFormatCheck(c) ==
    /\ cpc[c] = "bin_format"
    /\ IF is_some(bin_format)
       THEN /\ fmtGuards' = fmtGuards \cup {c}
            /\ format' = [format EXCEPT ![c] = bin_format.value]
            /\ cpc' = [cpc EXCEPT ![c] = "bin_data"]
       ELSE /\ cpc' = [cpc EXCEPT ![c] = "get_bin_data_format"]
            /\ UNCHANGED <<fmtGuards, format>>
    /\ UNCHANGED <<num_values, bin_format, nvGuards, num, devMode, bigEndian,
                   outcome>>

\* let format: BinDataFormat = self.get_attribute("bin_data_format").get()?;
GetBinDataFormat(c, ok) ==
    /\ cpc[c] = "get_bin_data_format"
    /\ IF ~ok
       THEN Leave(c, "idle", Outcome("Err", "bin_data_format", <<>>, <<>>, "-"))
       ELSE LET parsed == from_str(devMode.format)
            IN  IF parsed.kind = "Ok"
                THEN /\ format' = [format EXCEPT ![c] = parsed.value]
                     /\ cpc' = [cpc EXCEPT ![c] = "replace_bin_format"]
                     /\ UNCHANGED <<nvGuards, fmtGuards, num, outcome>>
                ELSE Leave(c, "panicked", Outcome("Panic", "from_str", <<>>, <<>>, "-"))
    /\ UNCHANGED <<num_values, bin_format, devMode, bigEndian>>

\* let mut writer = outer.write().unwrap(); writer.replace(format); format
ReplaceBinFormat(c) ==
    /\ cpc[c] = "replace_bin_format"
    /\ fmtGuards = {}
    /\ bin_format' = Some(format[c])
    /\ cpc' = [cpc EXCEPT ![c] = "bin_data"]
    /\ UNCHANGED <<num_values, nvGuards, fmtGuards, num, format, devMode,
                   bigEndian, outcome>>

\* data[0..8] on a block shorter than 8 bytes: the index is out of range and
\* the slice expression panics; no Result is produced.
ShortBlockAsError(block, fmt) == Outcome("Err", "bin_data", <<>>, block, fmt)
ShortBlock(block, fmt) == Outcome("Panic", "slice", <<>>, block, fmt)

\* if bin_format != BinDataFormat::S16 { panic!(...) }
\* let data = self.get_attribute("bin_data").get_raw_data()?;
\* let colors = data[0..8]...; Ok((colors[0], colors[1], colors[2]))
ReadBinData(c, ok, block) ==
    /\ cpc[c] = "bin_data"
    /\ IF format[c] # "S16"
       THEN Leave(c, "panicked", Outcome("Panic", "format", <<>>, <<>>, format[c]))
       ELSE IF ~ok
       THEN Leave(c, "idle", Outcome("Err", "bin_data", <<>>, <<>>, format[c]))
       ELSE IF Len(block) < 8
       THEN LET out == ShortBlock(block, format[c])
            IN  Leave(c, IF out.kind = "Panic" THEN "panicked" ELSE "idle", out)
       ELSE Leave(c, "idle", Outcome("Ok", "-", FirstThree(Colors(block)), block, format[c]))
    /\ UNCHANGED <<num_values, bin_format, devMode, bigEndian>>

\* Sensor::set_mode: writes the mode attribute; the device then reports the
\* format and the number of values of the new mode. It touches neither memo.
SetMode(m) ==
    /\ devMode # m
    /\ devMode' = m
    /\ UNCHANGED <<num_values, bin_format, nvGuards, fmtGuards, cpc, num, format,
                   bigEndian, outcome>>

\* ColorSensor::new: both memo fields start as None.
InitColor ==
    /\ CacheIdle
    /\ DiscIdle
    /\ MotorIdle
    /\ num_values = None
    /\ bin_format = None
    /\ nvGuards = {}
    /\ fmtGuards = {}
    /\ cpc = [c \in Clones |-> "idle"]
    /\ num = [c \in Clones |-> 0]
    /\ format = [c \in Clones |-> "-"]
    /\ devMode \in DeviceModes
    /\ bigEndian \in BOOLEAN
    /\ outcome = NoOutcome

NextColor ==
    \/ \E c \in Clones : NumValuesCheck(c) /\ UNCHANGED <<cacheVars, discVars, motorVars>>
    \/ \E c \in Clones, ok \in BOOLEAN :
           GetNumValues(c, ok) /\ UNCHANGED <<cacheVars, discVars, motorVars>>
    \/ \E c \in Clones : ReplaceNumValues(c) /\ UNCHANGED <<cacheVars, discVars, motorVars>>
    \/ \E c \in Clones : BinFormatCheck(c) /\ UNCHANGED <<cacheVars, discVars, motorVars>>
    \/ \E c \in Clones, ok \in BOOLEAN :
           GetBinDataFormat(c, ok) /\ UNCHANGED <<cacheVars, discVars, motorVars>>
    \/ \E c \in Clones : ReplaceBinFormat(c) /\ UNCHANGED <<cacheVars, discVars, motorVars>>
    \/ \E c \in Clones, ok \in BOOLEAN, block \in RawBlocks :
           ReadBinData(c, ok, block) /\ UNCHANGED <<cacheVars, discVars, motorVars>>
    \/ \E m \in DeviceModes : SetMode(m) /\ UNCHANGED <<cacheVars, discVars, motorVars>>

SpecColor == InitColor /\ [][NextColor]_vars

\* ------------------------------------------------ color sensor: properties
\* The word the claim expects at position i (1..3) of a block: low byte
\* first when little is TRUE, high byte first otherwise.
IsWordOf(v, block, i, little) ==
    LET first == block[2 * i - 1]
        second == block[2 * i]
        pattern == IF little THEN first + 256 * second ELSE 256 * first + second
    IN  /\ v \in -32768..32767
        /\ (v - pattern) \in {0, -65536}

C12_WitnessOtherTail ==
    /\ ~bigEndian
    /\ outcome.kind = "Ok"
    /\ outcome.block = <<1, 0, 0, 128, 255, 255, 0, 0>>
    /\ outcome.value = <<1, -32768, -1>>

C12_WitnessBigEndian ==
    /\ bigEndian
    /\ outcome.kind = "Ok"
    /\ outcome.block = <<1, 0, 0, 128, 255, 255, 7, 9>>
    /\ outcome.value = <<256, 128, -1>>

\* The variant each known token stands for.
VariantOf(token) ==
    CASE token = "u8" -> "U8"
      [] token = "s8" -> "S8"
      [] token = "u16" -> "U16"
      [] token = "s16" -> "S16"
      [] token = "s16_be" -> "S16Be"
      [] token = "s32" -> "S32"
      [] token = "float" -> "Float"
      [] OTHER -> "-"

\* C13: parsing a format token never crashes: a token that matches no
\* variant gives a parse error, and a token that matches gives its variant.
C13_ParseIsTotal ==
    /\ [](outcome.at = "from_str" => outcome.kind = "Err")
    /\ [][\A c \in Clones :
            (cpc[c] = "get_bin_data_format" /\ cpc'[c] = "replace_bin_format") =>
                format'[c] = VariantOf(devMode.format)]_vars

C13_FailingInput ==
    /\ devMode.format = "s32_be"
    /\ outcome.kind = "Panic"
    /\ outcome.at = "from_str"

\* C14: a call that finds a format other than S16 ends with an
\* UnsupportedFormat error returned to the caller.
C14_UnsupportedFormatReturned ==
    (outcome.kind # "None" /\ outcome.format \notin {"-", "S16"}) =>
        (outcome.kind = "Err" /\ outcome.at = "UnsupportedFormat")

C14_FailingInput ==
    /\ outcome.kind = "Panic"
    /\ outcome.at = "format"
    /\ outcome.format = "Float"

\* C20 as stated: once a memo field is Some it never changes and the
\* attribute behind it is never read again.
C20_SetOnce ==
    [][/\ num_values.kind = "Some" =>
            /\ num_values' = num_values
            /\ \A c \in Clones :
                  cpc[c] = "get_num_values" => cpc'[c] = "get_num_values"
       /\ bin_format.kind = "Some" =>
            /\ bin_format' = bin_format
            /\ \A c \in Clones :
                  cpc[c] = "get_bin_data_format" => cpc'[c] = "get_bin_data_format"]_vars

\* C20 amended: a memo field is never cleared; it changes only when a call
\* that found it None stores the value it read; a call that finds it Some
\* does not read the attribute; set_mode changes neither field.
C20_NeverClearedLastWriterWins ==
    [][/\ num_values.kind = "Some" => num_values'.kind = "Some"
       /\ bin_format.kind = "Some" => bin_format'.kind = "Some"
       /\ num_values' # num_values =>
            \E c \in Clones : /\ cpc[c] = "replace_num_values"
                              /\ cpc'[c] = "bin_format"
                              /\ num_values' = Some(num[c])
       /\ bin_format' # bin_format =>
            \E c \in Clones : /\ cpc[c] = "replace_bin_format"
                              /\ cpc'[c] = "bin_data"
                              /\ bin_format' = Some(format[c])
       /\ \A c \in Clones :
            /\ (cpc[c] = "idle" /\ cpc'[c] # "idle" /\ num_values.kind = "Some") =>
                   cpc'[c] = "bin_format"
            /\ (cpc[c] = "bin_format" /\ cpc'[c] # "bin_format"
                                      /\ bin_format.kind = "Some") =>
                   (cpc'[c] = "bin_data" /\ format'[c] = bin_format.value)
       /\ devMode' # devMode => (num_values' = num_values /\ bin_format' = bin_format)]_vars

\* A call uses the memoized S16 although the device now reports float.
C20_Witness ==
    /\ bin_format = Some("S16")
    /\ num_values = Some(3)
    /\ devMode = Mode("float", 1)
    /\ outcome.kind = "Ok"
    /\ \E c \in Clones : cpc[c] = "bin_data" /\ c \in fmtGuards /\ c \in nvGuards

\* ------------------------------------------------------------- motor: data
MotorClass == "dc-motor"
MotorName == "motor0"
MotorAttrs == {"duty_cycle", "duty_cycle_sp", "time_sp"}
MotorPath(a) == PathOf(MotorClass, MotorName, a)

Setters == {"set_duty_cycle_sp", "set_time_sp"}
Getters == {"get_duty_cycle", "get_duty_cycle_sp", "get_time_sp"}

\* The attribute name each accessor passes to get_attribute.
AttributeOfMixedUp(accessor) ==
    CASE accessor = "get_duty_cycle" -> "duty_cycle"
      [] accessor = "get_duty_cycle_sp" -> "duty_cycle"
      [] accessor = "set_duty_cycle_sp" -> "duty_cycle_sp"
      [] accessor = "get_time_sp" -> "time_sp"
      [] accessor = "set_time_sp" -> "time_sp"
AttributeOf(accessor) ==
    CASE accessor = "get_duty_cycle" -> "duty_cycle"
      [] accessor = "get_duty_cycle_sp" -> "duty_cycle_sp"
      [] accessor = "set_duty_cycle_sp" -> "duty_cycle_sp"
      [] accessor = "get_time_sp" -> "time_sp"
      [] accessor = "set_time_sp" -> "time_sp"

\* i32 values passed to the setters and written by the device.
I32Max == 2147483647
IntValues == {-100, 0, 7, I32Max}

\* Decimal text of an integer, as a sequence of characters.
DecimalDigits == <<"0", "1", "2", "3", "4", "5", "6", "7", "8", "9">>
RECURSIVE Digits(_)
Digits(n) ==
    IF n < 10 THEN <<DecimalDigits[n + 1]>>
    ELSE Digits(n \div 10) \o <<DecimalDigits[(n % 10) + 1]>>
to_string(v) == IF v < 0 THEN <<"-">> \o Digits(-v) ELSE Digits(v)

\* Reading an attribute file gives its text and a newline.
ReadFile(files_, path) == files_[path] \o <<"\n">>

\* trim_end: trailing newlines and blanks are removed.
RECURSIVE TrimEnd(_)
TrimEnd(text) ==
    IF text # <<>> /\ text[Len(text)] \in {"\n", " "}
    THEN TrimEnd(SubSeq(text, 1, Len(text) - 1))
    ELSE text

\* str::parse::<i32>: an optional sign, then one or more digits, within i32.
DigitValue(ch) == CHOOSE d \in 0..9 : DecimalDigits[d + 1] = ch
IsDigit(ch) == \E d \in 0..9 : DecimalDigits[d + 1] = ch
RECURSIVE ParseDigits(_, _, _)
ParseDigits(text, i, acc) ==
    IF i > Len(text) THEN [kind |-> "Ok", value |-> acc]
    ELSE IF ~IsDigit(text[i]) THEN [kind |-> "Err"]
    ELSE IF acc > (I32Max - DigitValue(text[i])) \div 10 THEN [kind |-> "Err"]
    ELSE ParseDigits(text, i + 1, acc * 10 + DigitValue(text[i]))
ParseI32(text) ==
    IF text = <<>> THEN [kind |-> "Err"]
    ELSE IF text[1] \in {"-", "+"}
    THEN IF Len(text) = 1 THEN [kind |-> "Err"]
         ELSE LET r == ParseDigits(text, 2, 0)
              IN  IF r.kind = "Ok" /\ text[1] = "-"
                  THEN [kind |-> "Ok", value |-> 0 - r.value]
                  ELSE r
    ELSE ParseDigits(text, 1, 0)

\* Attribute::get::<i32>: read the whole file, trim, parse.
AttributeGet(files_, handle) == ParseI32(TrimEnd(ReadFile(files_, handle.path)))

\* Attribute::set(v): write v.to_string() to the file of the handle.
AttributeSet(files_, handle, v) == [files_ EXCEPT ![handle.path] = to_string(v)]

\* Driver::get_attribute run by one thread: the cached handle, or a new one
\* that is inserted. Every attribute file of the motor exists.
HandleFor(cache, a) ==
    IF MapGet(cache, a) # None
    THEN MapGet(cache, a)
    ELSE FromSysClass(MotorClass, MotorName, a, MotorAttrs, Cardinality(cache) + 1)
CacheWith(cache, a) ==
    IF MapGet(cache, a) # None THEN cache ELSE MapInsert(cache, a, HandleFor(cache, a))

\* What an accessor call did and returned.
Got(accessor, kind, value, handle) ==
    [accessor |-> accessor, kind |-> kind, value |-> value, handle |-> handle]

\* ---------------------------------------------------------- motor: actions
\* fn set_...(&self, v: i32) { self.get_attribute(name).set(v) }
\* A write that fails leaves the file as it was.
Set(accessor, v, ok) ==
    LET a == AttributeOf(accessor)
        h == HandleFor(handles, a)
    IN  /\ handles' = CacheWith(handles, a)
        /\ IF ok
           THEN /\ store' = AttributeSet(store, h, v)
                /\ written' = [written EXCEPT ![h.path] = Some(v)]
                /\ got' = Got(accessor, "Ok", v, h)
           ELSE /\ got' = Got(accessor, "Err", 0, h)
                /\ UNCHANGED <<store, written>>

\* fn get_...(&self) -> AttributeResult<i32> { self.get_attribute(name).get() }
Get(accessor, ok) ==
    LET a == AttributeOf(accessor)
        h == HandleFor(handles, a)
        r == AttributeGet(store, h)
    IN  /\ handles' = CacheWith(handles, a)
        /\ got' = IF ok /\ r.kind = "Ok"
                  THEN Got(accessor, "Ok", r.value, h)
                  ELSE Got(accessor, "Err", 0, h)
        /\ UNCHANGED <<store, written>>

\* The device or another process writes an attribute file.
OtherWrite(a, v) ==
    /\ store[MotorPath(a)] # to_string(v)
    /\ store' = [store EXCEPT ![MotorPath(a)] = to_string(v)]
    /\ written' = [written EXCEPT ![MotorPath(a)] = None]
    /\ UNCHANGED <<handles, got>>

InitRoundTrip ==
    /\ CacheIdle
    /\ DiscIdle
    /\ ColorIdle
    /\ store = [path \in {MotorPath(a) : a \in MotorAttrs} |-> to_string(0)]
    /\ handles = NewAttributes
    /\ written = [path \in {MotorPath(a) : a \in MotorAttrs} |-> None]
    /\ got = Got("-", "None", 0, None)

NextRoundTrip ==
    \/ \E accessor \in Setters, v \in IntValues, ok \in BOOLEAN :
           Set(accessor, v, ok) /\ UNCHANGED <<cacheVars, discVars, colorVars>>
    \/ \E accessor \in Getters, ok \in BOOLEAN :
           Get(accessor, ok) /\ UNCHANGED <<cacheVars, discVars, colorVars>>
    \/ \E a \in MotorAttrs, v \in IntValues :
           OtherWrite(a, v) /\ UNCHANGED <<cacheVars, discVars, colorVars>>

SpecRoundTrip == InitRoundTrip /\ [][NextRoundTrip]_vars

\* ------------------------------------------------------- motor: properties
\* C15: a get that succeeds on an attribute whose last write was a
\* successful set of v, with no other write since, returns v; its handle is
\* the one in the cache and is bound to the file the set wrote.
RoundTripHolds(getter, a) ==
    (got.accessor = getter /\ got.kind = "Ok") =>
        /\ got.handle.path = <<DRIVER_PATH, MotorClass, MotorName, a>>
        /\ <<a, got.handle>> \in handles
        /\ written[got.handle.path] # None => got.value = written[got.handle.path].value

C15_RoundTrip ==
    /\ RoundTripHolds("get_duty_cycle_sp", "duty_cycle_sp")
    /\ RoundTripHolds("get_time_sp", "time_sp")

C15_Witness ==
    /\ got.accessor = "get_duty_cycle_sp"
    /\ got.kind = "Ok"
    /\ got.value = -100
    /\ written[MotorPath("duty_cycle_sp")] = Some(-100)
    /\ store[MotorPath("time_sp")] = to_string(I32Max)
    /\ store[MotorPath("duty_cycle")] = to_string(7)

\* ------------------------------------------- color sensor: the 0..8 slice
\* C21: a call returns Ok only for a block of at least 8 bytes, with 3
\* values whatever num_values is memoized; a call that read a block shorter
\* than 8 bytes ended in neither a value nor an error: it aborted at the slice.
C21_SliceZeroToEight ==
    /\ outcome.kind = "Ok" =>
          /\ Len(outcome.block) >= 8
          /\ Len(outcome.value) = 3
    /\ (outcome.block # <<>> /\ Len(outcome.block) < 8) =>
          /\ outcome.kind = "Panic"
          /\ outcome.at = "slice"
          /\ \E c \in Clones : cpc[c] = "panicked"

C21_Witness ==
    /\ outcome.kind = "Panic"
    /\ outcome.at = "slice"
    /\ outcome.block = <<1, 0, 2, 0, 3, 0>>
    /\ num_values = Some(3)

C21_WitnessOneValue ==
    /\ outcome.kind = "Ok"
    /\ num_values = Some(1)
    /\ Len(outcome.block) = 8
    /\ Len(outcome.value) = 3

C21_WitnessLongBlock ==
    /\ outcome.kind = "Ok"
    /\ Len(outcome.block) = 10

====
